---- MODULE Spec2Model ----
(***************************************************************************)
(* Model of update_dashboard.py: one invocation of main().  The state is   *)
(* the file system (configuration file and output documents), the          *)
(* DashboardUpdater object (config, readme_path), the locals of            *)
(* run_update / collect_data (data, readme_content), the console, and the  *)
(* position of the single thread of control.                               *)
(*                                                                         *)
(* Python dicts are functions whose DOMAIN is the key set; {} is the       *)
(* function with the empty domain.  Text is a tuple of one-character       *)
(* strings so that int() and str() are real conversions.                   *)
(***************************************************************************)
EXTENDS Integers, Sequences, FiniteSets, TLC

\* ------------------------------------------------------------------ bounds
\* largest number of <td> cells in a Google Scholar response body
MaxCells == 3

\* ------------------------------------------------------------ python values
EmptyDict == <<>>

Get(d, k, default) == IF k \in DOMAIN d THEN d[k] ELSE default

Put(d, k, v) == (k :> v) @@ d

Digits == {"0", "1", "2", "3", "4", "5", "6", "7", "8", "9"}

DigitVal == [c \in Digits |->
               CASE c = "0" -> 0 [] c = "1" -> 1 [] c = "2" -> 2 [] c = "3" -> 3
                 [] c = "4" -> 4 [] c = "5" -> 5 [] c = "6" -> 6 [] c = "7" -> 7
                 [] c = "8" -> 8 [] c = "9" -> 9]

DigitChar == <<"0", "1", "2", "3", "4", "5", "6", "7", "8", "9">>

\* int(s) for a non-empty string of decimal digits
RECURSIVE PyInt(_)
PyInt(s) == IF Len(s) = 0 THEN 0
            ELSE 10 * PyInt(SubSeq(s, 1, Len(s) - 1)) + DigitVal[s[Len(s)]]

\* str(n) for a non-negative int, as the f-string formats it
RECURSIVE PyStr(_)
PyStr(n) == IF n < 10 THEN <<DigitChar[n + 1]>>
            ELSE Append(PyStr(n \div 10), DigitChar[(n % 10) + 1])

\* str.strip() on blanks
RECURSIVE Strip(_)
Strip(s) == IF Len(s) = 0 THEN s
            ELSE IF s[1] = " " THEN Strip(Tail(s))
            ELSE IF s[Len(s)] = " " THEN Strip(SubSeq(s, 1, Len(s) - 1))
            ELSE s

\* the longest run of digits at the start / at the end of s
RECURSIVE LeadingDigits(_)
LeadingDigits(s) == IF Len(s) = 0 \/ s[1] \notin Digits THEN <<>>
                    ELSE <<s[1]>> \o LeadingDigits(Tail(s))

RECURSIVE TrailingDigits(_)
TrailingDigits(s) == IF Len(s) = 0 \/ s[Len(s)] \notin Digits THEN <<>>
                     ELSE Append(TrailingDigits(SubSeq(s, 1, Len(s) - 1)), s[Len(s)])

AllDigits(s) == Len(s) > 0 /\ \A i \in 1..Len(s) : s[i] \in Digits

\* --------------------------------------------------------- HTTP responses
\* A response body is a sequence of markup fragments [tag, txt]:
\*   "h1"          <h1 ...>txt</h1>
\*   "institution" <.. institution ..>txt</..>
\*   "pubs"        txt immediately before the word Publications
\*   "cites"       txt immediately before the word Citations
\*   "hindex"      txt immediately after  h-index ... >
\*   "gs_name"     <div id="gsc_prf_in">txt</div>
\*   "gs_cell"     <td class="gsc_rsb_std">txt</td>
\*   "td"          <td class="other">txt</td>
Frag(tag, txt) == [tag |-> tag, txt |-> txt]

FailureKinds == {"network_error", "http_error", "timeout"}

OkResponse(body) == [body |-> body, kind |-> "ok"]

FailedResponse(kind) == [body |-> <<>>, kind |-> kind]

\* session.get + raise_for_status: does the request raise?
RequestRaises(resp) == resp.kind \in FailureKinds

\* re.search: hits are the positions where the pattern matches; the first
\* of them, 0 for None
FirstMatch(hits) == IF hits = {} THEN 0 ELSE CHOOSE i \in hits : \A j \in hits : i <= j

\* ------------------------------------------------------ ResearchGateProfile
RGNamePattern(f) == f.tag = "h1" /\ Len(f.txt) > 0

RGInstitutionPattern(f) == f.tag = "institution" /\ Len(f.txt) > 0

RGPublicationsPattern(f) == f.tag = "pubs" /\ Len(TrailingDigits(f.txt)) > 0

RGCitationsPattern(f) == f.tag = "cites" /\ Len(TrailingDigits(f.txt)) > 0

RGHIndexPattern(f) == f.tag = "hindex" /\ Len(LeadingDigits(f.txt)) > 0

RG_extract_name(html) ==
    LET m == FirstMatch({i \in DOMAIN html : RGNamePattern(html[i])})
    IN  IF m # 0 THEN Strip(html[m].txt) ELSE <<>>

RG_extract_institution(html) ==
    LET m == FirstMatch({i \in DOMAIN html : RGInstitutionPattern(html[i])})
    IN  IF m # 0 THEN Strip(html[m].txt) ELSE <<>>

RG_extract_publications(html) ==
    LET m == FirstMatch({i \in DOMAIN html : RGPublicationsPattern(html[i])})
    IN  IF m # 0 THEN PyInt(TrailingDigits(html[m].txt)) ELSE 0

RG_extract_citations(html) ==
    LET m == FirstMatch({i \in DOMAIN html : RGCitationsPattern(html[i])})
    IN  IF m # 0 THEN PyInt(TrailingDigits(html[m].txt)) ELSE 0

RG_extract_research_interests(html) == <<>>

RG_extract_h_index(html) ==
    LET m == FirstMatch({i \in DOMAIN html : RGHIndexPattern(html[i])})
    IN  IF m # 0 THEN PyInt(LeadingDigits(html[m].txt)) ELSE 0

\* The outcome of a call of get_profile_data: whether it raised, the value
\* it returned, how many requests it sent and what it printed.
Returned(v, n, out) == [value |-> v, raised |-> FALSE, requests |-> n, printed |-> out]

Raised(n) == [value |-> EmptyDict, raised |-> TRUE, requests |-> n, printed |-> <<>>]

\* the dict built from response.text
RG_profile(html) ==
    [name               |-> RG_extract_name(html),
     institution        |-> RG_extract_institution(html),
     publications       |-> RG_extract_publications(html),
     citations          |-> RG_extract_citations(html),
     research_interests |-> RG_extract_research_interests(html),
     h_index            |-> RG_extract_h_index(html)]

\* the request is sent again after a failure
RG_get_profile_data_Retry(resp) ==
    IF RequestRaises(resp)
    THEN Returned(EmptyDict, 2, <<"Error scraping ResearchGate">>)
    ELSE Returned(RG_profile(resp.body), 1, <<>>)

\* the except branch returns a profile of defaults
RG_get_profile_data_Defaults(resp) ==
    IF RequestRaises(resp)
    THEN Returned(RG_profile(<<>>), 1, <<"Error scraping ResearchGate">>)
    ELSE Returned(RG_profile(resp.body), 1, <<>>)

RG_get_profile_data(resp) ==
    IF RequestRaises(resp)
    THEN Returned(EmptyDict, 1, <<"Error scraping ResearchGate">>)
    ELSE Returned(RG_profile(resp.body), 1, <<>>)

\* ----------------------------------------------------- GoogleScholarProfile
GSNamePattern(f) == f.tag = "gs_name" /\ Len(f.txt) > 0

GSCellPattern(f) == f.tag = "gs_cell" /\ AllDigits(f.txt)

\* re.findall of the cell pattern: the captured groups of every match, in
\* document order
RECURSIVE FindAllCells(_)
FindAllCells(html) ==
    IF Len(html) = 0 THEN <<>>
    ELSE IF GSCellPattern(html[1]) THEN <<html[1].txt>> \o FindAllCells(Tail(html))
    ELSE FindAllCells(Tail(html))

GS_extract_name(html) ==
    LET m == FirstMatch({i \in DOMAIN html : GSNamePattern(html[i])})
    IN  IF m # 0 THEN Strip(html[m].txt) ELSE <<>>

GS_extract_citations(html) ==
    LET m == FirstMatch({i \in DOMAIN html : GSCellPattern(html[i])})
    IN  IF m # 0 THEN PyInt(html[m].txt) ELSE 0

\* the h-index read from the third cell
GS_extract_h_index_Shifted(html) ==
    LET matches == FindAllCells(html)
    IN  IF Len(matches) > 2 THEN PyInt(matches[3]) ELSE 0

GS_extract_h_index(html) ==
    LET matches == FindAllCells(html)
    IN  IF Len(matches) > 1 THEN PyInt(matches[2]) ELSE 0

GS_extract_i10_index(html) ==
    LET matches == FindAllCells(html)
    IN  IF Len(matches) > 2 THEN PyInt(matches[3]) ELSE 0

GS_extract_publications(html) == <<>>

\* the dict built from response.text
GS_profile(html) ==
    [name         |-> GS_extract_name(html),
     publications |-> GS_extract_publications(html),
     citations    |-> GS_extract_citations(html),
     h_index      |-> GS_extract_h_index(html),
     i10_index    |-> GS_extract_i10_index(html)]

\* the request is outside the try block
GS_get_profile_data_Uncaught(resp) ==
    IF RequestRaises(resp)
    THEN Raised(1)
    ELSE Returned(GS_profile(resp.body), 1, <<>>)

GS_get_profile_data(resp) ==
    IF RequestRaises(resp)
    THEN Returned(EmptyDict, 1, <<"Error scraping Google Scholar">>)
    ELSE Returned(GS_profile(resp.body), 1, <<>>)

\* ---------------------------------------------------------- LinkedInProfile
\* the stub sends a request like the other scrapers
LI_get_profile_data_Fetch ==
    Returned([current_position |-> <<>>, education |-> <<>>, experience |-> <<>>],
             1, <<>>)

LI_get_profile_data ==
    Returned([current_position |-> <<>>, education |-> <<>>, experience |-> <<>>],
             0, <<>>)

\* --------------------------------------------------------------- YAML text
\* Python scalars carry their type: str, bool or None.
PyStrVal(s) == [v |-> s, t |-> "str"]

PyBool(b) == [v |-> IF b THEN "True" ELSE "False", t |-> "bool"]

PyNone == [v |-> "None", t |-> "none"]

IsScalar(v) == "t" \in DOMAIN v

\* A YAML document is a sequence of lines.  k is the shape of the line:
\*   "map"   key: val          "open"  key:   (a nested block follows)
\*   "empty" key: {}           "item"  - val
\*   "bad"   a line the scanner rejects
YamlLine(k, ind, key, val, quoted) ==
    [k |-> k, ind |-> ind, key |-> key, val |-> val, quoted |-> quoted]

\* plain scalars the resolver does not read as strings
YamlBoolTrue == {"true", "True", "TRUE", "yes", "on"}

YamlBoolFalse == {"false", "False", "FALSE", "no", "off"}

YamlNull == {"null", "~", ""}

\* yaml.dump: the text of a scalar, quoted when plain text would not load
\* back as the same string
Represent(x) ==
    IF x.t = "bool" THEN [val |-> IF x.v = "True" THEN "true" ELSE "false", quoted |-> FALSE]
    ELSE IF x.t = "none" THEN [val |-> "null", quoted |-> FALSE]
    ELSE [val |-> x.v, quoted |-> x.v \in YamlBoolTrue \cup YamlBoolFalse \cup YamlNull]

\* yaml.safe_load: the value of a scalar
Resolve(line) ==
    IF line.quoted THEN PyStrVal(line.val)
    ELSE IF line.val \in YamlBoolTrue THEN PyBool(TRUE)
    ELSE IF line.val \in YamlBoolFalse THEN PyBool(FALSE)
    ELSE IF line.val \in YamlNull THEN PyNone
    ELSE PyStrVal(line.val)

\* every key the program or its inputs use, in the order yaml.dump sorts them
SortedKeys == <<"about", "citations", "education", "experience", "google_scholar",
                "linkedin", "orcid", "profiles", "publications", "readme_path",
                "research_interests", "researchgate", "sections", "update_frequency">>

\* the nested block is written without its indentation
RECURSIVE DumpScalars_Flat(_, _, _)
DumpScalars_Flat(m, ind, keys) ==
    IF Len(keys) = 0 THEN <<>>
    ELSE IF keys[1] \notin DOMAIN m THEN DumpScalars_Flat(m, ind, Tail(keys))
    ELSE LET r == Represent(m[keys[1]])
         IN  <<YamlLine("map", 0, keys[1], r.val, r.quoted)>>
                 \o DumpScalars_Flat(m, ind, Tail(keys))

\* yaml.dump(m, default_flow_style=False) of a mapping of scalars
RECURSIVE DumpScalars(_, _, _)
DumpScalars(m, ind, keys) ==
    IF Len(keys) = 0 THEN <<>>
    ELSE IF keys[1] \notin DOMAIN m THEN DumpScalars(m, ind, Tail(keys))
    ELSE LET r == Represent(m[keys[1]])
         IN  <<YamlLine("map", ind, keys[1], r.val, r.quoted)>>
                 \o DumpScalars(m, ind, Tail(keys))

\* yaml.dump(m, default_flow_style=False) of a mapping whose values are
\* scalars or mappings of scalars
RECURSIVE DumpKeys(_, _)
DumpKeys(m, keys) ==
    IF Len(keys) = 0 THEN <<>>
    ELSE IF keys[1] \notin DOMAIN m THEN DumpKeys(m, Tail(keys))
    ELSE LET v == m[keys[1]]
             here == IF IsScalar(v)
                     THEN LET r == Represent(v)
                          IN  <<YamlLine("map", 0, keys[1], r.val, r.quoted)>>
                     ELSE IF DOMAIN v = {}
                     THEN <<YamlLine("empty", 0, keys[1], "", FALSE)>>
                     ELSE <<YamlLine("open", 0, keys[1], "", FALSE)>>
                              \o DumpScalars(v, 1, SortedKeys)
         IN  here \o DumpKeys(m, Tail(keys))

YamlDump(m) == DumpKeys(m, SortedKeys)

\* the block nested under the "open" line i: the run of indented lines after it
Children(text, i) ==
    {j \in (i + 1)..Len(text) : \A n \in (i + 1)..j : text[n].ind = 1}

\* the last of the lines at positions at that has the key
LastWithKey(text, at, key) ==
    CHOOSE j \in at : text[j].key = key /\ \A n \in at : text[n].key = key => n <= j

\* the mapping of the keys to the scalars of their last lines
RECURSIVE ScalarDict(_, _, _)
ScalarDict(text, at, keys) ==
    IF keys = {} THEN EmptyDict
    ELSE LET key == CHOOSE key \in keys : TRUE
         IN  Put(ScalarDict(text, at, keys \ {key}), key,
                 Resolve(text[LastWithKey(text, at, key)]))

NestedValue(text, i) ==
    LET ch == Children(text, i)
    IN  IF ch = {} THEN PyNone
        ELSE ScalarDict(text, ch, {text[j].key : j \in ch})

LineValue(text, i) ==
    IF text[i].k = "map" THEN Resolve(text[i])
    ELSE IF text[i].k = "empty" THEN EmptyDict
    ELSE NestedValue(text, i)

\* does the text have the shape of a block mapping?
WellFormedMapping(text) ==
    /\ text[1].ind = 0
    /\ \A i \in 1..Len(text) :
         /\ text[i].k \in {"map", "open", "empty"}
         /\ text[i].ind = 1 =>
              /\ text[i].k = "map"
              /\ text[i - 1].ind = 1 \/ text[i - 1].k = "open"

\* the mapping of the top-level keys to the values of their last lines
RECURSIVE TopDict(_, _, _)
TopDict(text, at, keys) ==
    IF keys = {} THEN EmptyDict
    ELSE LET key == CHOOSE key \in keys : TRUE
         IN  Put(TopDict(text, at, keys \ {key}), key,
                 LineValue(text, LastWithKey(text, at, key)))

\* yaml.safe_load(f): kind is "error" when it raises YAMLError
SafeLoad(text) ==
    IF \E i \in 1..Len(text) : text[i].k = "bad"
    THEN [value |-> EmptyDict, kind |-> "error"]
    ELSE IF Len(text) = 0
    THEN [value |-> EmptyDict, kind |-> "none"]
    ELSE IF \A i \in 1..Len(text) : text[i].k = "item" /\ text[i].ind = 0
    THEN [value |-> EmptyDict, kind |-> "list"]
    ELSE IF ~WellFormedMapping(text)
    THEN [value |-> EmptyDict, kind |-> "error"]
    ELSE LET top == {i \in 1..Len(text) : text[i].ind = 0}
         IN  [value |-> TopDict(text, top, {text[i].key : i \in top}),
              kind  |-> "mapping"]

\* ------------------------------------------------------------- file system
ConfigFile == "dashboard_config.yaml"

DefaultReadmePath == "README.md"

Paths == {ConfigFile, "README.md", "OUT.md"}

NoFile == [text |-> <<>>, exists |-> FALSE]

File(text) == [text |-> text, exists |-> TRUE]

\* ------------------------------------------------------- DashboardUpdater
DefaultConfig ==
    [profiles |-> [researchgate   |-> PyStrVal("https://www.researchgate.net/profile/Yu-Hao-Tseng"),
                   linkedin       |-> PyStrVal("https://www.linkedin.com/in/yu-hao-tseng-70316221b/"),
                   google_scholar |-> PyStrVal("https://scholar.google.com/citations?user=_zozF1AAAAAJ")],
     readme_path |-> PyStrVal("README.md"),
     update_frequency |-> PyStrVal("daily"),
     sections |-> [publications |-> PyBool(TRUE), citations |-> PyBool(TRUE),
                   research_interests |-> PyBool(TRUE), education |-> PyBool(TRUE),
                   experience |-> PyBool(TRUE), about |-> PyBool(TRUE)]]

\* _create_default_config: the text written to config_file
DefaultConfigText == YamlDump(DefaultConfig)

NotAvailable == <<"N", "/", "A">>

\* {d.get(key, 'N/A')} inside the f-string
FormatMetric(d, key) == IF key \in DOMAIN d THEN PyStr(d[key]) ELSE NotAvailable

DocLine(label, text) == [text |-> text, label |-> label]

\* generate_readme: the lines of the document that carry data, in order;
\* now is datetime.now().strftime(...)
generate_readme(d, now) ==
    <<DocLine("# Yu-Hao Tseng", <<>>),
      DocLine("Publications", FormatMetric(Get(d, "researchgate", EmptyDict), "publications")),
      DocLine("Citations", FormatMetric(Get(d, "google_scholar", EmptyDict), "citations")),
      DocLine("H-index", FormatMetric(Get(d, "google_scholar", EmptyDict), "h_index")),
      DocLine("i10-index", FormatMetric(Get(d, "google_scholar", EmptyDict), "i10_index")),
      DocLine("Last updated", now)>>

\* ------------------------------------------------------------------ inputs
Sources == <<"researchgate", "google_scholar", "linkedin">>

SourceSet == {Sources[i] : i \in 1..Len(Sources)}

UrlOf(key) == IF key \in DOMAIN DefaultConfig.profiles THEN DefaultConfig.profiles[key]
              ELSE PyStrVal("https://example.org/profile")

\* the profiles sections a user may have written
ProfileKeySets == (SUBSET SourceSet) \cup {{"orcid"}, {"orcid", "google_scholar"}}

RECURSIVE ProfilesOf(_)
ProfilesOf(keys) ==
    IF keys = {} THEN EmptyDict
    ELSE LET key == CHOOSE key \in keys : TRUE
         IN  Put(ProfilesOf(keys \ {key}), key, UrlOf(key))

UserConfigs ==
    {[profiles |-> ProfilesOf(keys)] : keys \in ProfileKeySets}
      \cup {[profiles |-> ProfilesOf(keys), readme_path |-> PyStrVal("OUT.md")] :
               keys \in ProfileKeySets}
      \cup {[readme_path |-> PyStrVal("OUT.md")]}

BadLine == YamlLine("bad", 0, "", "", FALSE)

ItemLine == YamlLine("item", 0, "", "researchgate", FALSE)

\* texts safe_load does not turn into a mapping: a scanner error, a mapping
\* cut short by a scanner error, a sequence, an empty file
BrokenTexts == {<<BadLine>>,
                <<YamlLine("map", 0, "readme_path", "OUT.md", FALSE), BadLine>>,
                <<ItemLine, ItemLine>>,
                <<>>}

\* a mapping whose profiles value is null
NullProfilesText == <<YamlLine("open", 0, "profiles", "", FALSE)>>

ConfigTexts == {YamlDump(c) : c \in UserConfigs}
                 \cup {DefaultConfigText, NullProfilesText} \cup BrokenTexts

SeqsUpTo(S, n) == UNION {[1..m -> S] : m \in 0..n}

RGBodies ==
    {<<>>,
     <<Frag("h1", <<" ", "Y", "H", " ">>), Frag("institution", <<"N", "T", "O", "U">>),
       Frag("pubs", <<"1", "2">>), Frag("cites", <<"3", "4">>), Frag("hindex", <<"3">>)>>,
     <<Frag("pubs", <<"0">>)>>,
     <<Frag("pubs", <<"1", ",", "2", "3", "4">>)>>,
     <<Frag("pubs", <<"n", "o">>), Frag("pubs", <<"7">>), Frag("hindex", <<"5", "x">>)>>,
     <<Frag("h1", <<" ">>), Frag("cites", <<"0", "0", "7">>)>>}

GSCellFrags == {Frag("gs_cell", <<"1", "2", "0">>), Frag("gs_cell", <<"1", "5">>),
                Frag("gs_cell", <<"1", ",", "5">>)}

ResearcherName == <<"A", ".", " ", "R">>

GSBodies ==
    SeqsUpTo(GSCellFrags, MaxCells)
      \cup {<<Frag("gs_name", ResearcherName), Frag("gs_cell", <<"1", "2", "0">>),
              Frag("gs_cell", <<"1", "5">>), Frag("gs_cell", <<"6">>)>>,
            <<Frag("td", <<"9">>), Frag("gs_cell", <<"0", "0", "7">>)>>}

Responses(bodies) == {FailedResponse(kind) : kind \in FailureKinds}
                       \cup {OkResponse(b) : b \in bodies}

NowStamp == <<"2", "0", "2", "6">>

OldStamp == <<"2", "0", "2", "5">>

\* the clock readings datetime.now() may return
Timestamps == {NowStamp}

\* a document left by an earlier run
OldDocument == generate_readme(EmptyDict, OldStamp)

\* ------------------------------------------------------------------- state
VARIABLES
    fs,              \* path -> [exists, text]
    fs0,             \* history: the file system when main() started
    pc,              \* position of the thread of control
    abortStage,      \* where an uncaught exception left the run
    config,          \* self.config
    readme_path,     \* self.readme_path
    data,            \* the local data of collect_data / run_update
    readme_content,  \* the local readme_content of run_update
    console,         \* the lines printed so far
    events,          \* history: network requests and sleeps, in order
    fetched          \* history: source -> the response its request received

vars == <<fs, fs0, pc, abortStage, config, readme_path, data, readme_content,
          console, events, fetched>>

Init ==
    /\ \E c \in {NoFile} \cup {File(t) : t \in ConfigTexts},
          r \in {NoFile, File(OldDocument)} :
           fs = (ConfigFile :> c) @@ ("README.md" :> r) @@ ("OUT.md" :> File(OldDocument))
    /\ fs0 = fs
    /\ pc = "start"
    /\ abortStage = "none"
    /\ config = EmptyDict
    /\ readme_path = ""
    /\ data = EmptyDict
    /\ readme_content = <<>>
    /\ console = <<>>
    /\ events = <<>>
    /\ fetched = EmptyDict

\* an exception nobody catches ends the process
Abort(stage) == pc' = "aborted" /\ abortStage' = stage

RECURSIVE Repeat(_, _)
Repeat(e, n) == IF n = 0 THEN <<>> ELSE <<e>> \o Repeat(e, n - 1)

\* ------------------------------------------------------------------ actions
\* the exception the try block of _load_config raises, "none" when it returns
TryLoad(file) ==
    IF ~file.exists THEN "FileNotFoundError"
    ELSE IF SafeLoad(file.text).kind = "error" THEN "YAMLError"
    ELSE "none"

\* except Exception:
HandledByLoadConfig_Any(exc) == exc \in {"FileNotFoundError", "YAMLError"}

\* except FileNotFoundError:
HandledByLoadConfig(exc) == exc = "FileNotFoundError"

\* DashboardUpdater(): __init__, _load_config and _create_default_config
LoadConfig ==
    /\ pc = "start"
    /\ LET exc == TryLoad(fs[ConfigFile])
           loaded == SafeLoad(fs[ConfigFile].text)
       IN  IF exc # "none" /\ HandledByLoadConfig(exc)
           THEN \* _create_default_config writes the file and returns the dict
                /\ fs' = [fs EXCEPT ![ConfigFile] = File(YamlDump(DefaultConfig))]
                /\ config' = DefaultConfig
                /\ readme_path' = Get(DefaultConfig, "readme_path",
                                      PyStrVal(DefaultReadmePath)).v
                /\ pc' = "run"
                /\ UNCHANGED abortStage
           ELSE IF exc = "none" /\ loaded.kind = "mapping"
           THEN /\ config' = loaded.value
                /\ readme_path' = Get(loaded.value, "readme_path",
                                      PyStrVal(DefaultReadmePath)).v
                /\ pc' = "run"
                /\ UNCHANGED <<fs, abortStage>>
           ELSE \* YAMLError from safe_load, or AttributeError from
                \* self.config.get on None or a list
                /\ Abort("config")
                /\ UNCHANGED <<fs, config, readme_path>>
    /\ UNCHANGED <<fs0, data, readme_content, console, events, fetched>>

\* run_update up to the first source of collect_data
StartUpdate ==
    /\ pc = "run"
    /\ console' = Append(console, "Starting dashboard update...")
    /\ data' = EmptyDict
    /\ pc' = "researchgate"
    /\ UNCHANGED <<fs, fs0, abortStage, config, readme_path, readme_content, events, fetched>>

\* 'name' in self.config['profiles']: "KeyError" without the key, "TypeError"
\* when the value is None, else the truth value
Configured(name) ==
    IF "profiles" \notin DOMAIN config THEN "KeyError"
    ELSE IF IsScalar(config["profiles"]) THEN "TypeError"
    ELSE IF name \in DOMAIN config["profiles"] THEN "yes" ELSE "no"

\* an empty profile is not stored
StoreProfile_SkipEmpty(d, name, profile) ==
    IF profile = EmptyDict THEN d ELSE Put(d, name, profile)

\* data[name] = scraper.get_profile_data()
StoreProfile(d, name, profile) == Put(d, name, profile)

\* what the history keeps of a response
Seen(resp) == [body |-> resp.body, kind |-> resp.kind]

\* one source of collect_data: the membership test, the scraper call and
\* the assignment; next is where control goes when the source is skipped
\* and pause where it goes after the call
CollectSource(name, resp, result, pause, next) ==
    LET c == Configured(name)
    IN  /\ pc = name
        /\ IF c \in {"KeyError", "TypeError"}
           THEN /\ Abort("collect")
                /\ UNCHANGED <<data, console, events, fetched>>
           ELSE IF c = "no"
           THEN /\ pc' = next
                /\ UNCHANGED <<abortStage, data, console, events, fetched>>
           ELSE /\ events' = events \o <<"call " \o name>>
                               \o Repeat("GET " \o name, result.requests)
                /\ console' = console \o result.printed
                /\ fetched' = IF result.requests > 0 THEN Put(fetched, name, Seen(resp))
                              ELSE fetched
                /\ IF result.raised
                   THEN Abort("collect") /\ UNCHANGED data
                   ELSE /\ data' = StoreProfile(data, name, result.value)
                        /\ pc' = pause
                        /\ UNCHANGED abortStage
        /\ UNCHANGED <<fs, fs0, config, readme_path, readme_content>>

CollectResearchGate ==
    \E resp \in Responses(RGBodies) :
        CollectSource("researchgate", resp, RG_get_profile_data(resp),
                      "researchgate_sleep", "google_scholar")

CollectGoogleScholar ==
    \E resp \in Responses(GSBodies) :
        CollectSource("google_scholar", resp, GS_get_profile_data(resp),
                      "google_scholar_sleep", "linkedin")

\* the stub is called whatever the network would answer
CollectLinkedIn ==
    \E resp \in Responses({<<>>}) :
        CollectSource("linkedin", resp, LI_get_profile_data, "render", "render")

\* time.sleep(2) after a network-bound source
Sleep(at, next) ==
    /\ pc = at
    /\ events' = Append(events, "sleep 2")
    /\ pc' = next
    /\ UNCHANGED <<fs, fs0, abortStage, config, readme_path, data, readme_content,
                   console, fetched>>

SleepResearchGate == Sleep("researchgate_sleep", "google_scholar")

SleepGoogleScholar == Sleep("google_scholar_sleep", "linkedin")

\* readme_content = self.generate_readme(data)
Render ==
    /\ pc = "render"
    /\ \E now \in Timestamps : readme_content' = generate_readme(data, now)
    /\ pc' = "open"
    /\ UNCHANGED <<fs, fs0, abortStage, config, readme_path, data, console, events, fetched>>

\* update_readme: open(self.readme_path, 'w') truncates the file or raises
\* OSError
OpenReadme ==
    /\ pc = "open"
    /\ \/ /\ fs' = [fs EXCEPT ![readme_path] = File(<<>>)]
          /\ pc' = "write"
          /\ UNCHANGED abortStage
       \/ /\ Abort("open")
          /\ UNCHANGED fs
    /\ UNCHANGED <<fs0, config, readme_path, data, readme_content, console, events, fetched>>

\* update_readme: f.write(content) and the close, then the two final
\* prints; a write that raises OSError leaves what was flushed before it
WriteReadme ==
    /\ pc = "write"
    /\ \/ /\ fs' = [fs EXCEPT ![readme_path] = File(readme_content)]
          /\ console' = console \o <<"README.md updated successfully",
                                     "Dashboard update completed!">>
          /\ pc' = "done"
          /\ UNCHANGED abortStage
       \/ /\ \E n \in 0..(Len(readme_content) - 1) :
                 fs' = [fs EXCEPT ![readme_path] = File(SubSeq(readme_content, 1, n))]
          /\ Abort("write")
          /\ UNCHANGED console
    /\ UNCHANGED <<fs0, config, readme_path, data, readme_content, events, fetched>>

Next ==
    \/ LoadConfig
    \/ StartUpdate
    \/ CollectResearchGate
    \/ SleepResearchGate
    \/ CollectGoogleScholar
    \/ SleepGoogleScholar
    \/ CollectLinkedIn
    \/ Render
    \/ OpenReadme
    \/ WriteReadme

Spec == Init /\ [][Next]_vars

\* the interpreter always takes the next step of a running process
FairSpec == Spec /\ WF_vars(Next)

TypeOK ==
    /\ pc \in {"start", "run", "researchgate", "researchgate_sleep", "google_scholar",
               "google_scholar_sleep", "linkedin", "render", "open", "write",
               "done", "aborted"}
    /\ abortStage \in {"none", "config", "collect", "open", "write"}
    /\ DOMAIN data \subseteq SourceSet

\* ------------------------------------------------------------------ claims
WellFormedConfig == "profiles" \in DOMAIN config /\ ~IsScalar(config["profiles"])

Rendered == Len(readme_content) > 0

FetchFailed(name) == name \in DOMAIN fetched /\ fetched[name].kind \in FailureKinds

FetchOk(name) == name \in DOMAIN fetched /\ fetched[name].kind = "ok"

Completed == pc = "done"

IsPrefix(a, b) == Len(a) <= Len(b) /\ SubSeq(b, 1, Len(a)) = a

\* the cells of class gsc_rsb_std whose content is a number, in page order
IsNumericCell(f) == f.tag = "gs_cell" /\ f.txt # <<>> /\ \A i \in DOMAIN f.txt : f.txt[i] \in Digits

NumericCells(body) == SelectSeq(body, IsNumericCell)

\* the numbers the cell texts of the inputs denote
NumberOf(txt) ==
    CASE txt = <<"1", "2", "0">> -> 120
      [] txt = <<"1", "5">> -> 15
      [] txt = <<"6">> -> 6
      [] txt = <<"0", "0", "7">> -> 7

CellAt(body, i) == IF Len(NumericCells(body)) >= i THEN NumberOf(NumericCells(body)[i].txt) ELSE 0

\* C1: with a well-formed configuration, whatever the two requests answer,
\* no exception leaves collect_data, a failed source is stored as the empty
\* profile, the run reaches the write of the document, and a run that is
\* done has written the rendered document and printed the completion
\* message last.
C1_SourceFailureNeverFatal ==
    /\ [](WellFormedConfig =>
            /\ abortStage \notin {"config", "collect"}
            /\ \A name \in DOMAIN fetched :
                 fetched[name].kind \in FailureKinds =>
                     name \in DOMAIN data /\ data[name] = EmptyDict
            /\ Completed =>
                 /\ fs[readme_path] = File(readme_content)
                 /\ console[Len(console)] = "Dashboard update completed!")
    /\ ((pc = "run" /\ WellFormedConfig) ~> (pc = "open"))

C1_Witness ==
    /\ Completed
    /\ FetchFailed("researchgate") /\ FetchFailed("google_scholar")
    /\ fetched["researchgate"].kind # fetched["google_scholar"].kind
    /\ data["researchgate"] = EmptyDict /\ data["google_scholar"] = EmptyDict

\* is the metric of line i of the metrics block missing: its source
\* skipped, its fetch failed, or its pattern without a match?
MetricMissing(i) ==
    IF i = 1
    THEN \/ "researchgate" \notin DOMAIN data
         \/ FetchFailed("researchgate")
         \/ ~\E n \in DOMAIN fetched["researchgate"].body :
                LET f == fetched["researchgate"].body[n]
                IN  f.tag = "pubs" /\ f.txt # <<>> /\ f.txt[Len(f.txt)] \in Digits
    ELSE \/ "google_scholar" \notin DOMAIN data
         \/ FetchFailed("google_scholar")
         \/ Len(NumericCells(fetched["google_scholar"].body)) < i - 1

\* C2: in the rendered document each of the four metrics that is missing
\* (source skipped, fetch failed, or pattern not matched) reads N/A.
C2_MissingMetricRendersNA ==
    Rendered => \A i \in 1..4 : MetricMissing(i) => readme_content[i + 1].text = NotAvailable

\* C3: when the run has ended, either it is done and the output file holds
\* the whole rendered document, or it ended early and every output file
\* holds what it held when the run began.
C3_OutputAllOrNothing ==
    pc \in {"done", "aborted"} =>
        \/ pc = "done" /\ fs[readme_path] = File(readme_content)
        \/ pc = "aborted" /\ \A p \in Paths \ {ConfigFile} : fs[p] = fs0[p]

\* C4: the Google Scholar profile takes citations, h_index and i10_index
\* from the first, second and third numeric cell of the page, 0 where the
\* cell is missing; with only google_scholar configured and cells 120, 15, 6
\* the record holds 120, 15, 6 and the document shows 120, 15, 6 and
\* Publications N/A.
C4_PositionalCells ==
    /\ (FetchOk("google_scholar") /\ "google_scholar" \in DOMAIN data) =>
         LET body == fetched["google_scholar"].body
             gs == data["google_scholar"]
         IN  /\ gs.citations = CellAt(body, 1)
             /\ gs.h_index = CellAt(body, 2)
             /\ gs.i10_index = CellAt(body, 3)
    /\ ( /\ WellFormedConfig
         /\ DOMAIN config["profiles"] = {"google_scholar"}
         /\ FetchOk("google_scholar")
         /\ [n \in DOMAIN NumericCells(fetched["google_scholar"].body) |->
                NumericCells(fetched["google_scholar"].body)[n].txt]
              = <<(<<"1", "2", "0">>), (<<"1", "5">>), (<<"6">>)>>
         /\ Rendered ) =>
         /\ DOMAIN data = {"google_scholar"}
         /\ data["google_scholar"].citations = 120
         /\ data["google_scholar"].h_index = 15
         /\ data["google_scholar"].i10_index = 6
         /\ readme_content[2] = DocLine("Publications", <<"N", "/", "A">>)
         /\ readme_content[3] = DocLine("Citations", <<"1", "2", "0">>)
         /\ readme_content[4] = DocLine("H-index", <<"1", "5">>)
         /\ readme_content[5] = DocLine("i10-index", <<"6">>)

C4_Witness ==
    /\ Completed
    /\ DOMAIN config["profiles"] = {"google_scholar"}
    /\ FetchOk("google_scholar")
    /\ Len(fetched["google_scholar"].body) = 4
    /\ fetched["google_scholar"].body[1] = Frag("gs_name", ResearcherName)
    /\ Len(NumericCells(fetched["google_scholar"].body)) = 3
    /\ data["google_scholar"].h_index = 15
    /\ readme_content[4].text = <<"1", "5">>

\* C5: the keys of the record collect_data returns are exactly the
\* configured sources among researchgate, google_scholar and linkedin, and
\* no other key is ever stored.
C5_KeysAreConfiguredSources ==
    WellFormedConfig =>
        /\ DOMAIN data \subseteq DOMAIN config["profiles"] \cap SourceSet
        /\ (pc = "render" \/ Rendered) =>
             DOMAIN data = DOMAIN config["profiles"] \cap SourceSet

C5_Witness ==
    /\ Completed
    /\ DOMAIN config["profiles"] = {"orcid", "google_scholar"}
    /\ FetchFailed("google_scholar")
    /\ DOMAIN data = {"google_scholar"}

\* what one source adds to the history when it is configured
SourceEvents(name) ==
    IF name \notin DOMAIN config["profiles"] THEN <<>>
    ELSE IF name = "linkedin" THEN <<"call linkedin">>
    ELSE <<"call " \o name, "GET " \o name, "sleep 2">>

\* C6: the sources are called in the order researchgate, google_scholar,
\* linkedin, each configured network source sends exactly one request, and
\* its pause has elapsed before the next source is looked at and before the
\* record is returned.
C6_OneAttemptThenPause ==
    WellFormedConfig =>
        LET rg == SourceEvents("researchgate")
            gs == SourceEvents("google_scholar")
            li == SourceEvents("linkedin")
        IN  /\ IsPrefix(events, rg \o gs \o li)
            /\ pc = "google_scholar" => events = rg
            /\ pc = "linkedin" => events = rg \o gs
            /\ (pc = "render" \/ Rendered) => events = rg \o gs \o li

C6_Witness ==
    /\ pc = "render"
    /\ FetchFailed("researchgate") /\ FetchOk("google_scholar")
    /\ events = <<"call researchgate", "GET researchgate", "sleep 2",
                  "call google_scholar", "GET google_scholar", "sleep 2",
                  "call linkedin">>

\* the documented fields of each source at their defaults
DefaultProfile(name) ==
    IF name = "researchgate"
    THEN [name |-> <<>>, institution |-> <<>>, publications |-> 0, citations |-> 0,
          research_interests |-> <<>>, h_index |-> 0]
    ELSE IF name = "google_scholar"
    THEN [name |-> <<>>, publications |-> <<>>, citations |-> 0, h_index |-> 0,
          i10_index |-> 0]
    ELSE [current_position |-> <<>>, education |-> <<>>, experience |-> <<>>]

EmptyBody(name) == FetchOk(name) /\ fetched[name].body = <<>>

\* C7 as stated: after a failed fetch or an empty response body the stored
\* profile has every documented field at its default.
C7_DefaultsOnFailure ==
    \A name \in DOMAIN data \cap DOMAIN fetched :
        (FetchFailed(name) \/ EmptyBody(name)) => data[name] = DefaultProfile(name)

\* C7 amended: after a failed fetch the stored profile is the empty dict,
\* with no field at all; after a successful fetch of an empty body it has
\* every documented field at its default; the linkedin profile always has
\* every documented field at its default.
C7_EmptyOnFailureDefaultsOnEmptyBody ==
    /\ \A name \in DOMAIN data \cap DOMAIN fetched :
         /\ FetchFailed(name) => data[name] = EmptyDict
         /\ EmptyBody(name) => data[name] = DefaultProfile(name)
    /\ "linkedin" \in DOMAIN data => data["linkedin"] = DefaultProfile("linkedin")

C7_Witness ==
    /\ Completed
    /\ FetchFailed("researchgate") /\ data["researchgate"] = EmptyDict
    /\ EmptyBody("google_scholar")
    /\ data["google_scholar"] = DefaultProfile("google_scholar")
    /\ "linkedin" \in DOMAIN data

\* the configuration file exists when the run starts and does not load as
\* a mapping
MalformedAtStart ==
    fs0[ConfigFile].exists /\ SafeLoad(fs0[ConfigFile].text).kind # "mapping"

\* C8: with a malformed configuration file the run goes from its start
\* straight to an abort in the constructor: no request is sent, no source
\* is stored, nothing is rendered, and no file changes, the configuration
\* file included.
C8_MalformedConfigAborts ==
    MalformedAtStart =>
        /\ pc \in {"start", "aborted"}
        /\ pc = "aborted" => abortStage = "config"
        /\ events = <<>> /\ data = EmptyDict /\ ~Rendered
        /\ fs = fs0

C8_Witness ==
    /\ pc = "aborted"
    /\ fs0[ConfigFile].exists
    /\ SafeLoad(fs0[ConfigFile].text).kind = "error"
    /\ fs[ConfigFile] = fs0[ConfigFile]

\* the default configuration as documented
DocumentedDefault ==
    [profiles |->
        [researchgate |-> PyStrVal("https://www.researchgate.net/profile/Yu-Hao-Tseng"),
         linkedin |-> PyStrVal("https://www.linkedin.com/in/yu-hao-tseng-70316221b/"),
         google_scholar |-> PyStrVal("https://scholar.google.com/citations?user=_zozF1AAAAAJ")],
     readme_path |-> PyStrVal("README.md"),
     update_frequency |-> PyStrVal("daily"),
     sections |-> [name \in {"about", "publications", "citations", "research_interests",
                             "education", "experience"} |-> PyBool(TRUE)]]

\* C9: loading where no file exists creates the file, the configuration
\* returned is the documented default and is what the file loads as;
\* loading the file the default path wrote returns the same configuration;
\* loading never changes a file that exists.
C9_DefaultRoundTrip ==
    /\ (~fs0[ConfigFile].exists /\ pc # "start") =>
         /\ fs[ConfigFile].exists
         /\ config = DocumentedDefault
         /\ SafeLoad(fs[ConfigFile].text) = [value |-> config, kind |-> "mapping"]
    /\ (fs0[ConfigFile] = File(DefaultConfigText) /\ pc # "start") =>
         /\ abortStage # "config"
         /\ config = DocumentedDefault
    /\ fs0[ConfigFile].exists => fs[ConfigFile] = fs0[ConfigFile]

C9_Witness ==
    /\ ~fs0[ConfigFile].exists
    /\ pc = "run"
    /\ fs[ConfigFile].exists
    /\ SafeLoad(fs[ConfigFile].text).value = config

\* C10: the linkedin profile stored is always the same fixed one, and
\* calling its client sends no request, whatever the network would answer.
C10_LinkedInStubFixed ==
    /\ "linkedin" \in DOMAIN data =>
         data["linkedin"] = [current_position |-> <<>>, education |-> <<>>,
                             experience |-> <<>>]
    /\ "linkedin" \notin DOMAIN fetched
    /\ \A i \in DOMAIN events : events[i] # "GET linkedin"

C10_Witness ==
    /\ Completed
    /\ "linkedin" \in DOMAIN data
    /\ events[Len(events)] = "call linkedin"
    /\ FetchFailed("researchgate") /\ FetchFailed("google_scholar")

====
